---------------------------- MODULE Spec2Model ----------------------------
(***************************************************************************)
(* Model of xero_map_gen/config.py: the layered configuration pipeline of  *)
(* load_config (proto -> file -> cli), the argument binder built on        *)
(* traitlets' KVArgParseConfigLoader / argparse, the file loader, the      *)
(* validator and the path resolver expand_relative_path.                   *)
(*                                                                         *)
(* Encoding of Python values.  A Python str is a TLA+ string.  A Python    *)
(* int n is the string "int(n)" (TLC cannot compare a string to a number). *)
(* A command-line token is a record [dash, body]: the run of leading '-'   *)
(* and the rest, so that '--'+key and raw.lstrip('-') are structural.      *)
(* A path is a record [abs, segs]: the number of '/' it starts with (three *)
(* stands for three or more), and its '/'-separated components.            *)
(***************************************************************************)
EXTENDS Naturals, Sequences, FiniteSets, TLC

VARIABLES
    argv,           \* load_config's argv: a sequence of tokens
    proto_config,   \* load_config's proto_config
    fs,             \* the files on disk: a set of [path, content]
    pc,             \* position inside load_config
    config,         \* the RichConfig being accumulated
    sources,        \* RichConfig._sources, as the sequence of <<name, layer>>
    loader_result,  \* what argparse_loader.load_config(argv) came to
    cli_config,     \* result of load_cli_config
    file_config,    \* result of load_file_config
    loaded_paths,   \* paths handed to load_single_file_config, in order
    critical,       \* messages logged through ROOT_LOGGER.critical
    usage,          \* number of usage summaries printed
    raised,         \* the exception that ended the run ("" if none)
    exit_status,    \* <<status>> once the process has exited, else <<>>
    p_path, p_base, p_env, p_home, p_pc, p_once, p_twice
                    \* the path resolver's inputs and results

vars == <<argv, proto_config, fs, pc, config, sources, loader_result, cli_config,
          file_config, loaded_paths, critical, usage, raised, exit_status,
          p_path, p_base, p_env, p_home, p_pc, p_once, p_twice>>

loadVars == <<argv, proto_config, fs, pc, config, sources, loader_result, cli_config,
              file_config, loaded_paths, critical, usage, raised, exit_status>>

pathVars == <<p_path, p_base, p_env, p_home, p_pc, p_once, p_twice>>

-----------------------------------------------------------------------------
(* Bounds of the model *)

\* number of command-line items (a switch with its value, or a lone switch)
MaxArgs == 2

\* number of components of a path given to the path resolver
MaxSegs == 2

-----------------------------------------------------------------------------
(* Python values *)

\* text_type(v): the text of an int, a str unchanged
text_type(v) ==
    CASE v = "int(0)" -> "0"
      [] v = "int(5)" -> "5"
      [] OTHER -> v

\* ast.literal_eval(rhs), falling back to the string itself, as traitlets'
\* _exec_config_str does: a decimal literal becomes an int, any text that is
\* no Python literal stays the string
literal_eval(rhs) ==
    CASE rhs = "0" -> "int(0)"
      [] rhs = "5" -> "int(5)"
      [] OTHER -> rhs

\* Python truthiness of a config value
Truthy(v) == v # "" /\ v # "int(0)"

\* re.sub('_', '-', key)
Hyphenate(key) ==
    CASE key = "file_log_level" -> "file-log-level"
      [] key = "log_dir" -> "log-dir"
      [] key = "log_path" -> "log-path"
      [] key = "stream_log_level" -> "stream-log-level"
      [] key = "contact_limit" -> "contact-limit"
      [] key = "config_dir" -> "config-dir"
      [] key = "config_path" -> "config-path"
      [] key = "data_dir" -> "data-dir"
      [] key = "dump_path" -> "dump-path"
      [] key = "contact_groups" -> "contact-groups"
      [] key = "rsa_key_path" -> "rsa-key-path"
      [] key = "consumer_key" -> "consumer-key"
      [] OTHER -> key

Range(s) == {s[i] : i \in DOMAIN s}

-----------------------------------------------------------------------------
(* Config: a map from section (class) name to a map from trait name to     *)
(* value.  Reading a missing section of a traitlets Config creates it      *)
(* empty, so every section is always present.                              *)

PKG_NAME == "xero_map_gen"

SectionNames == {"XeroApiConfig", "LogConfig", "BaseConfig", "FilterConfig"}

NoFields == [k \in {} |-> ""]

EmptyConfig == [s \in SectionNames |-> NoFields]

Has(c, cls, name) == name \in DOMAIN c[cls]

\* Config section .get(name): None ("" is as falsy as None here) when unset
Get(c, cls, name) == IF Has(c, cls, name) THEN c[cls][name] ELSE ""

\* config.Cls.name = value
SetField(c, cls, name, value) ==
    [c EXCEPT ![cls] = [k \in DOMAIN c[cls] \cup {name} |->
                            IF k = name THEN value ELSE c[cls][k]]]

\* dict.update on one section
UpdateSection(sec, other) ==
    [k \in DOMAIN sec \cup DOMAIN other |->
        IF k \in DOMAIN other THEN other[k] ELSE sec[k]]

\* A merge that replaces a section wholesale when the new layer has it
MergeReplacingSections(self, other) ==
    [s \in SectionNames |->
        IF DOMAIN other[s] # {} THEN other[s] ELSE self[s]]

\* traitlets Config.merge: sub-Configs are merged recursively, leaves of the
\* other config overwrite
Merge(self, other) ==
    [s \in SectionNames |-> UpdateSection(self[s], other[s])]

\* build a Config from a set of <<cls, name, value>>
ConfigOf(items) ==
    [s \in SectionNames |->
        [n \in {it[2] : it \in {x \in items : x[1] = s}} |->
            (CHOOSE x \in items : x[1] = s /\ x[2] = n)[3]]]

-----------------------------------------------------------------------------
(* The declared traits (the Schema Registry) *)

\* the classes in the order get_argparse_loader visits them
ConfigClasses == <<"XeroApiConfig", "LogConfig", "BaseConfig", "FilterConfig">>

\* one declared trait; switch "" and default_value "" stand for "not given"
\* (Unicode() defaults to '', Integer() to 0)
TraitDecl(name, switch, default_value) ==
    [name |-> name, switch |-> switch, default_value |-> default_value]

\* the TraitType members of a class in getmembers order (sorted by name)
Traits(cls) ==
    CASE cls = "XeroApiConfig" ->
            << TraitDecl("consumer_key", "xero-consumer-key", ""),
               TraitDecl("rsa_key_path", "xero-key-path", "") >>
      [] cls = "LogConfig" ->
            << TraitDecl("file_log_level", "", "DEBUG"),
               TraitDecl("log_dir", "", ""),
               TraitDecl("log_path", "", PKG_NAME \o ".log"),
               TraitDecl("stream_log_level", "verbosity", "WARNING") >>
      [] cls = "BaseConfig" ->
            << TraitDecl("config_dir", "", ""),
               TraitDecl("config_path", "", ""),
               TraitDecl("contact_limit", "", "int(0)"),
               TraitDecl("data_dir", "", ""),
               TraitDecl("dump_path", "", "contacts.csv") >>
      [] cls = "FilterConfig" ->
            << TraitDecl("contact_groups", "filter-contact-groups", ""),
               TraitDecl("countries", "filter-countries", ""),
               TraitDecl("states", "filter-states", "") >>

\* RichConfigurable.trait_argparse_aliases, the loop body: the alias of one
\* trait; it carries add_kwargs['default'] when the trait's default is not ''
TraitAlias(cls, t) ==
    [key |-> IF t.switch # "" THEN t.switch ELSE Hyphenate(t.name),
     trait |-> cls \o "." \o t.name,
     cls |-> cls,
     name |-> t.name,
     has_default |-> t.default_value # "",
     default |-> text_type(t.default_value)]

trait_argparse_aliases(cls) ==
    [i \in DOMAIN Traits(cls) |-> TraitAlias(cls, Traits(cls)[i])]

\* the aliases dict of get_argparse_loader, in insertion order
LoaderAliases ==
    trait_argparse_aliases(ConfigClasses[1]) \o
    trait_argparse_aliases(ConfigClasses[2]) \o
    trait_argparse_aliases(ConfigClasses[3]) \o
    trait_argparse_aliases(ConfigClasses[4])

Tok(dash, body) == [dash |-> dash, body |-> body]

\* the flags dict of get_argparse_loader, in insertion order: each flag's
\* value (a one-field config) and its declared add_args
LoaderFlags ==
    << [key |-> "debug", cls |-> "LogConfig", name |-> "stream_log_level",
        value |-> "DEBUG", add_args |-> <<Tok("-", "d"), Tok("--", "debug")>>],
       [key |-> "verbose", cls |-> "LogConfig", name |-> "stream_log_level",
        value |-> "INFO", add_args |-> <<Tok("-", "v"), Tok("--", "verbose")>>],
       [key |-> "quiet", cls |-> "LogConfig", name |-> "stream_log_level",
        value |-> "ERROR", add_args |-> <<Tok("-", "q"), Tok("--", "quiet")>>] >>

\* RichKVArgParseConfigLoader.__init__, the flags loop: every flag's
\* extension is stored under `alias`, the variable the aliases loop left
\* behind (its last key), so only the last flag's extension survives there
flag_extensions ==
    [k \in {LoaderAliases[Len(LoaderAliases)].key} |->
        [add_args |-> LoaderFlags[Len(LoaderFlags)].add_args]]

\* ['-'+key] if len(key) is 1 else ['--'+key]
DefaultAddArgs(key) ==
    IF Len(key) = 1 THEN <<Tok("-", key)>> ELSE <<Tok("--", key)>>

\* _add_arguments, aliases loop: the option registered for one alias (no
\* alias declares add_args, and no alias key is also a flag name)
AliasOption(a) ==
    [strings |-> Range(DefaultAddArgs(a.key)),
     action |-> "store",
     dest |-> a.trait,
     has_default |-> a.has_default,
     default |-> a.default,
     const |-> <<>>]

\* _add_arguments, flags loop: flag_extensions.get(key, {}).get('add_args'),
\* or the default spelling when that is empty
FlagAddArgs(key, extensions) ==
    IF key \in DOMAIN extensions /\ extensions[key].add_args # <<>>
    THEN extensions[key].add_args
    ELSE DefaultAddArgs(key)

\* _add_arguments, flags loop: the option registered for one flag
FlagOption(f) ==
    [strings |-> Range(FlagAddArgs(f.key, flag_extensions)),
     action |-> "append_const",
     dest |-> "_flags",
     has_default |-> FALSE,
     default |-> "",
     const |-> <<f.cls, f.name, f.value>>]

\* the parser's options after _add_arguments
ParserOptions ==
    [i \in DOMAIN LoaderAliases |-> AliasOption(LoaderAliases[i])] \o
    [i \in DOMAIN LoaderFlags |-> FlagOption(LoaderFlags[i])]

IsOption(options, tok) == \E i \in DOMAIN options : tok \in options[i].strings

OptionOf(options, tok) ==
    options[CHOOSE i \in DOMAIN options : tok \in options[i].strings]

-----------------------------------------------------------------------------
(* argparse: parse_known_args *)

\* the namespace before any token is read: the options that carry an
\* explicit default (argument_default=SUPPRESS covers only the others)
DefaultsOf(options) ==
    [d \in {options[i].dest : i \in {j \in DOMAIN options : options[j].has_default}}
        |-> options[CHOOSE i \in DOMAIN options : options[i].dest = d].default]

NamespaceDefaults == DefaultsOf(ParserOptions)

NsSet(ns, dest, v) ==
    [d \in DOMAIN ns \cup {dest} |-> IF d = dest THEN v ELSE ns[d]]

\* the store action: the value of the latest occurrence replaces the old one
Store(ns, dest, v) == NsSet(ns, dest, v)

\* append_const putting the newest const first
AppendConstFront(flags, const) == <<const>> \o flags

\* the append_const action: consts accumulate in token order
AppendConst(flags, const) == Append(flags, const)

ParseState(error, ns, flags, extras) ==
    [error |-> error, ns |-> ns, flags |-> flags, extras |-> extras]

\* one token taken: the parse state after it and the number of tokens
\* consumed.  A store option needs a next token that is not option-like
\* (does not start with '-'), else argparse reports "expected one
\* argument".  Unknown tokens go to extras.
TakeOption(opt, args, i, st) ==
    IF opt.action = "append_const"
    THEN <<ParseState(FALSE, st.ns, AppendConst(st.flags, opt.const),
                      st.extras), 1>>
    ELSE IF i + 1 <= Len(args) /\ args[i + 1].dash = ""
         THEN <<ParseState(FALSE, Store(st.ns, opt.dest, args[i + 1].body),
                           st.flags, st.extras), 2>>
         ELSE <<ParseState(TRUE, st.ns, st.flags, st.extras), 1>>

TakeToken(options, args, i, st) ==
    IF IsOption(options, args[i])
    THEN TakeOption(OptionOf(options, args[i]), args, i, st)
    ELSE <<ParseState(FALSE, st.ns, st.flags, Append(st.extras, args[i])), 1>>

\* the tokens args[i..] consumed left to right
RECURSIVE ParseFrom(_, _, _, _)
ParseFrom(options, args, i, st) ==
    IF i > Len(args) \/ st.error THEN st
    ELSE ParseFrom(options, args, i + TakeToken(options, args, i, st)[2],
                   TakeToken(options, args, i, st)[1])

parse_known_args(args) ==
    ParseFrom(ParserOptions, args, 1,
              ParseState(FALSE, NamespaceDefaults, <<>>, <<>>))

-----------------------------------------------------------------------------
(* traitlets: KVArgParseConfigLoader._convert_to_config *)

\* _exec_config_str(k, v) for every namespace entry k = "Cls.name":
\* config.Cls.name = literal_eval(v), or v itself when v is no literal
ExecAll(ns) ==
    [s \in SectionNames |->
        [n \in {a.name : a \in {x \in Range(LoaderAliases) :
                                   x.cls = s /\ x.trait \in DOMAIN ns}} |->
            literal_eval(ns[s \o "." \o n])]]

\* _load_flag for each collected flag config, in list order
RECURSIVE LoadFlags(_, _)
LoadFlags(cfg, flags) ==
    IF flags = <<>> THEN cfg
    ELSE LoadFlags(SetField(cfg, flags[1][1], flags[1][2], flags[1][3]),
                   Tail(flags))

\* the KeyValueConfigLoader run on the tokens argparse left over: it knows
\* no flags, so a left-over that starts with '-' is an ArgumentError
\* ("Unrecognized flag"); other left-overs are kept as extra_args
ExtrasRaise(extras) == \E i \in DOMAIN extras : extras[i].dash # ""

\* the values first, then the flags
convert_to_config(parsed) ==
    LoadFlags(ExecAll(parsed.ns), parsed.flags)

\* what load_config makes of the parsed arguments: "argparse" when the
\* parser itself exits, "ArgumentError" when the loader raises, else the
\* cli config
LoaderOutcome(parsed) ==
    IF parsed.error
    THEN [outcome |-> "argparse", cfg |-> EmptyConfig]
    ELSE IF ExtrasRaise(parsed.extras)
         THEN [outcome |-> "ArgumentError", cfg |-> EmptyConfig]
         ELSE [outcome |-> "ok", cfg |-> convert_to_config(parsed)]

\* loader.load_config(argv)
LoaderLoadConfig(args) == LoaderOutcome(parse_known_args(args))

-----------------------------------------------------------------------------
(* os.path on paths [abs, segs] *)

Path(abs, segs) == [abs |-> abs, segs |-> segs]

\* the empty string; as a dir argument it is falsy, like None
EmptyPath == Path(0, <<>>)

\* os.getcwd()
Cwd == Path(1, <<"cwd">>)

\* os.path.expandvars on the components: a component that names a variable
\* of env is replaced by the variable's value; the scan resumes after the
\* inserted value, so the value itself is not expanded
RECURSIVE ExpandSegs(_, _)
ExpandSegs(segs, env) ==
    IF segs = <<>> THEN <<>>
    ELSE (IF segs[1] \in DOMAIN env THEN env[segs[1]].segs ELSE <<segs[1]>>)
         \o ExpandSegs(Tail(segs), env)

Min(a, b) == IF a <= b THEN a ELSE b

\* os.path.expandvars: the leading slashes of a path that starts with a
\* variable are its own and those of the variable's value (values have at
\* least one component)
expandvars(path, env) ==
    Path(IF path.segs # <<>> /\ path.segs[1] \in DOMAIN env
         THEN Min(path.abs + env[path.segs[1]].abs, 3)
         ELSE path.abs,
         ExpandSegs(path.segs, env))

\* os.path.normpath's loop over the components
RECURSIVE NormSegs(_, _, _)
NormSegs(segs, abs, acc) ==
    IF segs = <<>> THEN acc
    ELSE LET c == segs[1]
             rest == Tail(segs)
         IN IF c = "" \/ c = "."
            THEN NormSegs(rest, abs, acc)
            ELSE IF c # ".."
                    \/ (abs = 0 /\ acc = <<>>)
                    \/ (acc # <<>> /\ acc[Len(acc)] = "..")
                 THEN NormSegs(rest, abs, Append(acc, c))
                 ELSE IF acc # <<>>
                      THEN NormSegs(rest, abs, SubSeq(acc, 1, Len(acc) - 1))
                      ELSE NormSegs(rest, abs, acc)

\* os.path.normpath: exactly two leading slashes are kept, more become
\* one; '.' for an empty relative result
normpath(path) ==
    IF path.abs = 0 /\ NormSegs(path.segs, path.abs, <<>>) = <<>>
    THEN Path(0, <<".">>)
    ELSE Path(IF path.abs = 3 THEN 1 ELSE path.abs,
              NormSegs(path.segs, path.abs, <<>>))

\* os.path.expanduser: a leading '~' component becomes $HOME
expanduser(path, home) ==
    IF path.abs = 0 /\ path.segs # <<>> /\ path.segs[1] = "~"
    THEN Path(home.abs, home.segs \o Tail(path.segs))
    ELSE path

\* os.path.join(dir, path)
join(dir, path) ==
    IF path.abs > 0 THEN path ELSE Path(dir.abs, dir.segs \o path.segs)

\* os.path.abspath
abspath(path) ==
    normpath(IF path.abs > 0 THEN path ELSE join(Cwd, path))

\* expand_relative_path(path, dir) under the environment env and $HOME home
expand_relative_path(path, dir, env, home) ==
    LET p == expanduser(normpath(expandvars(path, env)), home)
    IN IF p.abs = 0 /\ dir # EmptyPath
       THEN abspath(join(expanduser(normpath(expandvars(dir, env)), home), p))
       ELSE abspath(p)

\* a path-valued config string as a path
PathOf(s) ==
    CASE s = "" -> EmptyPath
      [] s = "a.json" -> Path(0, <<"a.json">>)
      [] s = "b.json" -> Path(0, <<"b.json">>)
      [] s = "c.yaml" -> Path(0, <<"c.yaml">>)
      [] s = "../d2/a.json" -> Path(0, <<"..", "d2", "a.json">>)
      [] s = "/d1" -> Path(1, <<"d1">>)
      [] s = "/d2" -> Path(1, <<"d2">>)
      [] s = "/d9" -> Path(1, <<"d9">>)

\* os.path.splitext(path)[1], from the last component
splitext(path) ==
    LET base == IF path.segs = <<>> THEN "" ELSE path.segs[Len(path.segs)]
    IN CASE base \in {"a.json", "b.json"} -> ".json"
         [] base = "c.yaml" -> ".yaml"
         [] base = "x.py" -> ".py"
         [] OTHER -> ""

\* the process environment of a load_config run: no variable the paths name
ProcEnv == [v \in {} |-> EmptyPath]

ProcHome == Path(1, <<"home", "u">>)

-----------------------------------------------------------------------------
(* Inputs of a load_config run *)

Val(s) == Tok("", s)

\* the command-line items: a switch followed by its value, or a lone switch
ArgvItems ==
    { <<Tok("--", "verbosity"), Val("DEBUG")>>,
      <<Tok("--", "verbosity")>>,
      <<Tok("--", "debug")>>,
      <<Tok("--", "verbose")>>,
      <<Tok("--", "quiet")>>,
      <<Tok("-", "d")>>,
      <<Tok("-", "v")>>,
      <<Tok("-", "q")>>,
      <<Tok("--", "config-path"), Val("b.json")>>,
      <<Tok("--", "config-dir"), Val("/d2")>>,
      <<Tok("--", "xero-consumer-key"), Val("kc")>>,
      <<Tok("--", "xero-consumer-key"), Val("")>>,
      <<Tok("--", "xero-key-path"), Val("/c.pem")>> }

RECURSIVE ArgvsOfLen(_)
ArgvsOfLen(n) ==
    IF n = 0 THEN {<<>>}
    ELSE {a \o it : a \in ArgvsOfLen(n - 1), it \in ArgvItems}

Argvs == UNION {ArgvsOfLen(n) : n \in 0..MaxArgs}

ProtoCredentials ==
    { <<"XeroApiConfig", "rsa_key_path", "/p.pem">>,
      <<"XeroApiConfig", "consumer_key", "kp">> }

ProtoConfigs ==
    { EmptyConfig,
      ConfigOf(ProtoCredentials),
      ConfigOf(ProtoCredentials \cup
               { <<"BaseConfig", "config_path", "a.json">>,
                 <<"BaseConfig", "config_dir", "/d1">>,
                 <<"LogConfig", "log_dir", "/plog">>,
                 <<"LogConfig", "stream_log_level", "INFO">>,
                 <<"FilterConfig", "countries", "AU">> }),
      ConfigOf(ProtoCredentials \cup
               { <<"BaseConfig", "config_path", "c.yaml">>,
                 <<"BaseConfig", "config_dir", "/d1">> }),
      ConfigOf({ <<"BaseConfig", "config_path", "../d2/a.json">>,
                 <<"BaseConfig", "config_dir", "/d1">>,
                 <<"XeroApiConfig", "consumer_key", "kp">> }) }

File(segs, items) == [path |-> Path(1, segs), content |-> ConfigOf(items)]

FilesD1 ==
    { File(<<"d1", "a.json">>,
           { <<"LogConfig", "stream_log_level", "CRITICAL">>,
             <<"LogConfig", "file_log_level", "INFO">>,
             <<"LogConfig", "log_dir", "/flog">>,
             <<"BaseConfig", "dump_path", "out.csv">>,
             <<"BaseConfig", "contact_limit", "int(5)">>,
             <<"XeroApiConfig", "consumer_key", "kf">> }),
      File(<<"d1", "b.json">>,
           { <<"BaseConfig", "config_dir", "/d9">>,
             <<"BaseConfig", "data_dir", "/data">>,
             <<"XeroApiConfig", "consumer_key", "">> }),
      File(<<"d1", "c.yaml">>, {}) }

FilesD2 ==
    { File(<<"d2", "a.json">>,
           { <<"XeroApiConfig", "rsa_key_path", "/f.pem">>,
             <<"XeroApiConfig", "consumer_key", "kf2">>,
             <<"FilterConfig", "states", "NSW">> }),
      File(<<"d2", "b.json">>,
           { <<"XeroApiConfig", "rsa_key_path", "/f2.pem">>,
             <<"LogConfig", "log_path", "b.log">>,
             <<"BaseConfig", "config_path", "a.json">> }) }

FileSystems == { {}, FilesD1, FilesD1 \cup FilesD2 }

Exists(files, path) == \E f \in files : f.path = path

Content(files, path) == (CHOOSE f \in files : f.path = path).content

-----------------------------------------------------------------------------
(* load_config *)

\* exit() without an argument raises SystemExit(None): exit status 0
builtin_exit == <<0>>

\* argparse's parser.error(): usage on stderr, then sys.exit(2)
parser_error_exit == <<2>>

CredentialsMessage == "To connect to the Xero API, you must either specify a Xero API consumer key or a config file containing such a key"

\* RichConfig.merge_source: record the layer, merge it
merge_source(name, other) ==
    /\ sources' = Append(sources, <<name, other>>)
    /\ config' = Merge(config, other)

\* config_runtime_exception: critical log, usage (config_quiet is always
\* falsy and load_cli_config has stored argparse_loader in config), exit()
config_runtime_exception(message) ==
    /\ critical' = Append(critical, message)
    /\ usage' = usage + 1
    /\ exit_status' = builtin_exit
    /\ pc' = "exited"

\* A validator that is content with either credential
validate_config_any(cfg) ==
    \/ Truthy(Get(cfg, "XeroApiConfig", "rsa_key_path"))
    \/ Truthy(Get(cfg, "XeroApiConfig", "consumer_key"))

\* validate_config: TRUE when it returns, FALSE when it raises
validate_config(cfg) ==
    /\ Truthy(Get(cfg, "XeroApiConfig", "rsa_key_path"))
    /\ Truthy(Get(cfg, "XeroApiConfig", "consumer_key"))

\* A pull-forward that copies nothing from the cli config
PullForwardNothing(cfg, cli) == cfg

\* load_config lines 447-452: config_path, config_dir and stream_log_level
\* of the cli config are copied into config ahead of the merges
PullForwardFields(cfg, cli) ==
    LET c1 == IF Has(cli, "BaseConfig", "config_path")
              THEN SetField(cfg, "BaseConfig", "config_path",
                            cli["BaseConfig"]["config_path"])
              ELSE cfg
        c2 == IF Has(cli, "BaseConfig", "config_dir")
              THEN SetField(c1, "BaseConfig", "config_dir",
                            cli["BaseConfig"]["config_dir"])
              ELSE c1
    IN IF Has(cli, "LogConfig", "stream_log_level")
       THEN SetField(c2, "LogConfig", "stream_log_level",
                     cli["LogConfig"]["stream_log_level"])
       ELSE c2

\* validate_config_path: the expanded path, before the existence check
ResolvedConfigPath(cfg) ==
    expand_relative_path(PathOf(Get(cfg, "BaseConfig", "config_path")),
                         PathOf(Get(cfg, "BaseConfig", "config_dir")),
                         ProcEnv, ProcHome)

SupportedExtensions == {".py", ".json"}

\* lines 441-445
MergeProto ==
    /\ pc = "start"
    /\ merge_source("proto", proto_config)
    /\ pc' = "cli"
    /\ UNCHANGED pathVars
    /\ UNCHANGED <<argv, proto_config, fs, loader_result, cli_config, file_config,
                   loaded_paths, critical, usage, raised, exit_status>>

NoResult == [outcome |-> "", cfg |-> EmptyConfig]

\* load_cli_config, line 340: the loader parses argv
ParseArgv ==
    /\ pc = "cli"
    /\ loader_result' = LoaderLoadConfig(argv)
    /\ pc' = "parsed"
    /\ UNCHANGED pathVars
    /\ UNCHANGED <<argv, proto_config, fs, config, sources, cli_config,
                   file_config, loaded_paths, critical, usage, raised,
                   exit_status>>

\* load_cli_config returns the cli config
LoadCliConfig ==
    /\ pc = "parsed"
    /\ loader_result.outcome = "ok"
    /\ cli_config' = loader_result.cfg
    /\ pc' = "pull"
    /\ UNCHANGED pathVars
    /\ UNCHANGED <<argv, proto_config, fs, config, sources, loader_result, file_config,
                   loaded_paths, critical, usage, raised, exit_status>>

\* load_cli_config catches ArgumentError
LoadCliArgumentError ==
    /\ pc = "parsed"
    /\ loader_result.outcome = "ArgumentError"
    /\ raised' = "ArgumentError"
    /\ config_runtime_exception("Unrecognized flag")
    /\ UNCHANGED pathVars
    /\ UNCHANGED <<argv, proto_config, fs, config, sources, loader_result, cli_config,
                   file_config, loaded_paths>>

\* argparse ends the process itself: nothing is raised to load_cli_config
LoadCliParserExit ==
    /\ pc = "parsed"
    /\ loader_result.outcome = "argparse"
    /\ raised' = "argparse"
    /\ usage' = usage + 1
    /\ exit_status' = parser_error_exit
    /\ pc' = "exited"
    /\ UNCHANGED pathVars
    /\ UNCHANGED <<argv, proto_config, fs, config, sources, loader_result, cli_config,
                   file_config, loaded_paths, critical>>

\* lines 447-452
PullForward ==
    /\ pc = "pull"
    /\ config' = PullForwardFields(config, cli_config)
    /\ pc' = "file"
    /\ UNCHANGED pathVars
    /\ UNCHANGED <<argv, proto_config, fs, sources, loader_result, cli_config, file_config,
                   loaded_paths, critical, usage, raised, exit_status>>

\* load_file_config with no config_path: an empty file config
LoadFileConfigNone ==
    /\ pc = "file"
    /\ ~Truthy(Get(config, "BaseConfig", "config_path"))
    /\ file_config' = EmptyConfig
    /\ pc' = "merge_file"
    /\ UNCHANGED pathVars
    /\ UNCHANGED <<argv, proto_config, fs, config, sources, loader_result, cli_config,
                   loaded_paths, critical, usage, raised, exit_status>>

\* validate_config_path raises ConfigFileNotFound; line 461 is outside any
\* try, so the exception leaves load_config
LoadFileConfigNotFound ==
    /\ pc = "file"
    /\ Truthy(Get(config, "BaseConfig", "config_path"))
    /\ ~Exists(fs, ResolvedConfigPath(config))
    /\ raised' = "ConfigFileNotFound"
    /\ pc' = "uncaught"
    /\ UNCHANGED pathVars
    /\ UNCHANGED <<argv, proto_config, fs, config, sources, loader_result, cli_config,
                   file_config, loaded_paths, critical, usage, exit_status>>

\* load_single_file_config raises ConfigException for the extension
LoadFileConfigBadExtension ==
    /\ pc = "file"
    /\ Truthy(Get(config, "BaseConfig", "config_path"))
    /\ Exists(fs, ResolvedConfigPath(config))
    /\ splitext(ResolvedConfigPath(config)) \notin SupportedExtensions
    /\ loaded_paths' = Append(loaded_paths, ResolvedConfigPath(config))
    /\ raised' = "ConfigException: invalid config file extension"
    /\ pc' = "uncaught"
    /\ UNCHANGED pathVars
    /\ UNCHANGED <<argv, proto_config, fs, config, sources, loader_result, cli_config,
                   file_config, critical, usage, exit_status>>

\* load_file_config loads the one file
LoadFileConfig ==
    /\ pc = "file"
    /\ Truthy(Get(config, "BaseConfig", "config_path"))
    /\ Exists(fs, ResolvedConfigPath(config))
    /\ splitext(ResolvedConfigPath(config)) \in SupportedExtensions
    /\ loaded_paths' = Append(loaded_paths, ResolvedConfigPath(config))
    /\ file_config' = Merge(EmptyConfig, Content(fs, ResolvedConfigPath(config)))
    /\ pc' = "merge_file"
    /\ UNCHANGED pathVars
    /\ UNCHANGED <<argv, proto_config, fs, config, sources, loader_result, cli_config,
                   critical, usage, raised, exit_status>>

\* line 462
MergeFile ==
    /\ pc = "merge_file"
    /\ merge_source("file", file_config)
    /\ pc' = "merge_cli"
    /\ UNCHANGED pathVars
    /\ UNCHANGED <<argv, proto_config, fs, loader_result, cli_config, file_config,
                   loaded_paths, critical, usage, raised, exit_status>>

\* line 463
MergeCli ==
    /\ pc = "merge_cli"
    /\ merge_source("cli", cli_config)
    /\ pc' = "validate"
    /\ UNCHANGED pathVars
    /\ UNCHANGED <<argv, proto_config, fs, loader_result, cli_config, file_config,
                   loaded_paths, critical, usage, raised, exit_status>>

\* lines 464-469, validate_config returns: the config is returned
ValidateAndReturn ==
    /\ pc = "validate"
    /\ validate_config(config)
    /\ pc' = "returned"
    /\ UNCHANGED pathVars
    /\ UNCHANGED <<argv, proto_config, fs, config, sources, loader_result, cli_config,
                   file_config, loaded_paths, critical, usage, raised,
                   exit_status>>

\* lines 464-467, validate_config raises ConfigException
ValidateFails ==
    /\ pc = "validate"
    /\ ~validate_config(config)
    /\ raised' = "ConfigException: credentials"
    /\ config_runtime_exception(CredentialsMessage)
    /\ UNCHANGED pathVars
    /\ UNCHANGED <<argv, proto_config, fs, config, sources, loader_result, cli_config,
                   file_config, loaded_paths>>

PathIdle ==
    /\ p_path = EmptyPath /\ p_base = EmptyPath
    /\ p_env = ProcEnv /\ p_home = ProcHome
    /\ p_pc = "idle" /\ p_once = EmptyPath /\ p_twice = EmptyPath

Init ==
    /\ argv \in Argvs
    /\ proto_config \in ProtoConfigs
    /\ fs \in FileSystems
    /\ pc = "start"
    /\ config = EmptyConfig
    /\ sources = <<>>
    /\ loader_result = NoResult
    /\ cli_config = EmptyConfig
    /\ file_config = EmptyConfig
    /\ loaded_paths = <<>>
    /\ critical = <<>>
    /\ usage = 0
    /\ raised = ""
    /\ exit_status = <<>>
    /\ PathIdle

Next ==
    \/ MergeProto
    \/ ParseArgv
    \/ LoadCliConfig
    \/ LoadCliArgumentError
    \/ LoadCliParserExit
    \/ PullForward
    \/ LoadFileConfigNone
    \/ LoadFileConfigNotFound
    \/ LoadFileConfigBadExtension
    \/ LoadFileConfig
    \/ MergeFile
    \/ MergeCli
    \/ ValidateAndReturn
    \/ ValidateFails

Spec == Init /\ [][Next]_vars

-----------------------------------------------------------------------------
(* The path resolver on its own *)

PathComponents == {"a", "..", ".", "~", "$A", "$B"}

RECURSIVE SegsOfLen(_)
SegsOfLen(n) ==
    IF n = 0 THEN {<<>>}
    ELSE {Append(s, c) : s \in SegsOfLen(n - 1), c \in PathComponents}

PathInputs ==
    {Path(abs, segs) : abs \in 0..2,
                       segs \in UNION {SegsOfLen(n) : n \in 0..MaxSegs}}

\* base directories; EmptyPath is "no base"
BaseInputs ==
    { EmptyPath, Path(1, <<"base">>), Path(0, <<"d">>),
      Path(0, <<"$A">>), Path(0, <<"~", "..">>) }

\* environments: $B is always "y"; $A is unset or one of three values
EnvInputs ==
    { [v \in {"$B"} |-> Path(0, <<"y">>)] } \cup
    { [v \in {"$A", "$B"} |-> IF v = "$B" THEN Path(0, <<"y">>) ELSE a] :
        a \in { Path(0, <<"x">>), Path(1, <<"r", "..">>),
                Path(0, <<"$B">>) } }

HomeInputs == { ProcHome, Path(1, <<>>) }

LoadIdle ==
    /\ argv = <<>> /\ proto_config = EmptyConfig /\ fs = {}
    /\ pc = "idle" /\ config = EmptyConfig /\ sources = <<>>
    /\ loader_result = NoResult
    /\ cli_config = EmptyConfig /\ file_config = EmptyConfig
    /\ loaded_paths = <<>> /\ critical = <<>> /\ usage = 0
    /\ raised = "" /\ exit_status = <<>>

PathInit ==
    /\ p_path \in PathInputs
    /\ p_base \in BaseInputs
    /\ p_env \in EnvInputs
    /\ p_home \in HomeInputs
    /\ p_pc = "start"
    /\ p_once = EmptyPath
    /\ p_twice = EmptyPath
    /\ LoadIdle

\* expand_relative_path(p, base)
ResolveOnce ==
    /\ p_pc = "start"
    /\ p_once' = expand_relative_path(p_path, p_base, p_env, p_home)
    /\ p_pc' = "once"
    /\ UNCHANGED <<p_path, p_base, p_env, p_home, p_twice>>
    /\ UNCHANGED loadVars

\* expand_relative_path of the first result, same base and environment
ResolveTwice ==
    /\ p_pc = "once"
    /\ p_twice' = expand_relative_path(p_once, p_base, p_env, p_home)
    /\ p_pc' = "twice"
    /\ UNCHANGED <<p_path, p_base, p_env, p_home, p_once>>
    /\ UNCHANGED loadVars

PathNext == ResolveOnce \/ ResolveTwice

PathSpec == PathInit /\ [][PathNext]_vars

-----------------------------------------------------------------------------
(* Vocabulary of the claims *)

LayerNames == [i \in DOMAIN sources |-> sources[i][1]]

AllMerged == LayerNames = <<"proto", "file", "cli">>

\* argv token i is a registered switch that sets Cls.name: the value switch
\* of the field, or a shortcut whose fixed configuration assigns the field
SetsField(i, cls, name) ==
    /\ IsOption(ParserOptions, argv[i])
    /\ \/ /\ OptionOf(ParserOptions, argv[i]).action = "store"
          /\ OptionOf(ParserOptions, argv[i]).dest = cls \o "." \o name
       \/ /\ OptionOf(ParserOptions, argv[i]).action = "append_const"
          /\ OptionOf(ParserOptions, argv[i]).const[1] = cls
          /\ OptionOf(ParserOptions, argv[i]).const[2] = name

SwitchPositions(cls, name) == {i \in DOMAIN argv : SetsField(i, cls, name)}

LastPosition(S) == CHOOSE i \in S : \A j \in S : j <= i

\* the value token i gives: the following token for a value switch, the
\* fixed value for a shortcut
ValueGivenAt(i) ==
    IF OptionOf(ParserOptions, argv[i]).action = "store"
    THEN argv[i + 1].body
    ELSE OptionOf(ParserOptions, argv[i]).const[3]

AllFields ==
    {<<a.cls, a.name>> : a \in Range(LoaderAliases)}

\* the long spellings of the three shortcuts, with their levels
ShortcutLevel(tok) ==
    CASE tok = Tok("--", "debug") -> "DEBUG"
      [] tok = Tok("--", "verbose") -> "INFO"
      [] tok = Tok("--", "quiet") -> "ERROR"
      [] OTHER -> ""

ShortcutPositions == {i \in DOMAIN argv : ShortcutLevel(argv[i]) # ""}

Parsed == pc \notin {"start", "cli", "idle"}

-----------------------------------------------------------------------------
(* C1 *)

\* C1: in the configuration load_config returns, every Field holds the value
\* of the last of the layers proto, file, cli that sets it (cli over file
\* over proto), and the configuration has exactly the Fields some layer
\* sets: a section of a later layer does not erase the Fields of that
\* section that only an earlier layer sets.
C1_MergeOrder ==
    pc = "returned" =>
        /\ AllMerged
        /\ \A s \in SectionNames :
            /\ DOMAIN config[s] = DOMAIN proto_config[s]
                                    \cup DOMAIN file_config[s]
                                    \cup DOMAIN cli_config[s]
            /\ \A n \in DOMAIN config[s] :
                config[s][n] =
                    IF n \in DOMAIN cli_config[s] THEN cli_config[s][n]
                    ELSE IF n \in DOMAIN file_config[s] THEN file_config[s][n]
                    ELSE proto_config[s][n]

\* a returned configuration in which one section has a Field that file and
\* cli set differently, a Field that proto and file (not cli) set
\* differently, and a Field only proto sets
C1_Witness ==
    /\ pc = "returned"
    /\ \E s \in SectionNames :
        /\ \E n \in DOMAIN file_config[s] \cap DOMAIN cli_config[s] :
              file_config[s][n] # cli_config[s][n]
        /\ \E n \in (DOMAIN proto_config[s] \cap DOMAIN file_config[s])
                        \ DOMAIN cli_config[s] :
              proto_config[s][n] # file_config[s][n]
    /\ \E s \in SectionNames :
        /\ DOMAIN cli_config[s] # {}
        /\ DOMAIN proto_config[s] \ (DOMAIN file_config[s]
                                       \cup DOMAIN cli_config[s]) # {}

-----------------------------------------------------------------------------
(* C2 *)

\* C2: in the configuration load_config returns, every Field that the config
\* file sets and that argv names by no switch and no shortcut has the file's
\* value; this includes the Fields that declare a non-empty default.
C2_FileWinsOverDefaults ==
    pc = "returned" =>
        \A s \in SectionNames : \A n \in DOMAIN file_config[s] :
            SwitchPositions(s, n) = {} => config[s][n] = file_config[s][n]

-----------------------------------------------------------------------------
(* C3 *)

\* the config_path and config_dir the file is to be located with: the cli
\* value where argv gives one, else the proto value
EffectiveSetting(name) ==
    IF Has(cli_config, "BaseConfig", name)
    THEN cli_config["BaseConfig"][name]
    ELSE Get(proto_config, "BaseConfig", name)

\* C3: a config file is located only after the command line is parsed; the
\* file loaded is the one resolved from the cli-given config_path against
\* the cli-given config_dir, each falling back to the proto value only when
\* argv does not give it; and the layers are merged in the order proto,
\* file, cli.
C3_PullForward ==
    /\ loaded_paths # <<>> =>
        /\ loader_result.outcome = "ok"
        /\ loaded_paths =
              << expand_relative_path(PathOf(EffectiveSetting("config_path")),
                                      PathOf(EffectiveSetting("config_dir")),
                                      ProcEnv, ProcHome) >>
    /\ pc \in {"merge_file", "merge_cli", "validate", "returned"} =>
        (loaded_paths = <<>> <=> EffectiveSetting("config_path") = "")
    /\ \E k \in 0..3 : LayerNames = SubSeq(<<"proto", "file", "cli">>, 1, k)

\* argv gives both config_path and config_dir, proto gives other values for
\* both, and the run returns with a file loaded
C3_Witness ==
    /\ pc = "returned"
    /\ loaded_paths # <<>>
    /\ Has(cli_config, "BaseConfig", "config_path")
    /\ Has(cli_config, "BaseConfig", "config_dir")
    /\ Has(proto_config, "BaseConfig", "config_path")
    /\ Has(proto_config, "BaseConfig", "config_dir")
    /\ proto_config["BaseConfig"]["config_path"]
          # cli_config["BaseConfig"]["config_path"]
    /\ proto_config["BaseConfig"]["config_dir"]
          # cli_config["BaseConfig"]["config_dir"]

-----------------------------------------------------------------------------
(* C4 *)

\* C4: when the accepted argv contains shortcut switches --debug, --verbose,
\* --quiet, LogConfig.stream_log_level of the cli Layer is the level of the
\* shortcut that occurs last in argv; `--verbose --quiet` yields ERROR and
\* `--quiet --verbose` yields INFO.
C4_LastShortcutWins ==
    (Parsed /\ loader_result.outcome = "ok") =>
        /\ ShortcutPositions # {} =>
              Get(loader_result.cfg, "LogConfig", "stream_log_level")
                  = ShortcutLevel(argv[LastPosition(ShortcutPositions)])
        /\ argv = <<Tok("--", "verbose"), Tok("--", "quiet")>> =>
              Get(loader_result.cfg, "LogConfig", "stream_log_level") = "ERROR"
        /\ argv = <<Tok("--", "quiet"), Tok("--", "verbose")>> =>
              Get(loader_result.cfg, "LogConfig", "stream_log_level") = "INFO"

\* two different shortcuts were given and load_config has returned with the
\* level of the second
C4_Witness ==
    /\ pc = "returned"
    /\ Cardinality(ShortcutPositions) >= 2
    /\ \E i, j \in ShortcutPositions :
          i < j /\ ShortcutLevel(argv[i]) # ShortcutLevel(argv[j])
    /\ config["LogConfig"]["stream_log_level"]
          = ShortcutLevel(argv[LastPosition(ShortcutPositions)])

-----------------------------------------------------------------------------
(* C5 *)

\* C5: for every argv the Argument Binder accepts, each Field that argv
\* names holds, in the cli Layer, the value given at the last occurrence in
\* argv of a switch for that Field, value switches and shortcuts alike.
C5_LastSwitchWins ==
    (Parsed /\ loader_result.outcome = "ok") =>
        \A f \in AllFields :
            SwitchPositions(f[1], f[2]) # {} =>
                /\ Has(loader_result.cfg, f[1], f[2])
                /\ loader_result.cfg[f[1]][f[2]]
                      = ValueGivenAt(LastPosition(SwitchPositions(f[1], f[2])))

-----------------------------------------------------------------------------
(* C6 *)

\* C6: each of the three built-in shortcuts is registered under every
\* spelling its add_args declare (-d/--debug, -v/--verbose, -q/--quiet): an
\* argv made of one such spelling is accepted and sets
\* LogConfig.stream_log_level to the shortcut's level.
C6_ShortcutSpellings ==
    Parsed =>
        \A k \in DOMAIN LoaderFlags :
            \A a \in DOMAIN LoaderFlags[k].add_args :
                argv = <<LoaderFlags[k].add_args[a]>> =>
                    /\ loader_result.outcome = "ok"
                    /\ Get(loader_result.cfg, "LogConfig", "stream_log_level")
                          = LoaderFlags[k].value

-----------------------------------------------------------------------------
(* C7 *)

\* C7: on every argument-parsing error and every validation error the
\* failure is logged at critical severity, the usage summary is printed, the
\* process terminates with a non-zero exit status, and load_config returns
\* no configuration.
C7_ErrorsExitNonZero ==
    raised \in {"ArgumentError", "argparse", "ConfigException: credentials"} =>
        /\ critical # <<>>
        /\ usage >= 1
        /\ pc = "exited"
        /\ exit_status # <<>>
        /\ exit_status # <<0>>

-----------------------------------------------------------------------------
(* C8 *)

\* C8: every argument error, file-format error, file-not-found error and
\* validation error raised during load_config is caught at the boundary that
\* logs it at critical severity and terminates; none leaves load_config
\* uncaught.
C8_ErrorsCaught ==
    raised \in {"ArgumentError",
                "ConfigException: invalid config file extension",
                "ConfigFileNotFound",
                "ConfigException: credentials"} =>
        /\ pc = "exited"
        /\ critical # <<>>

-----------------------------------------------------------------------------
(* C9 *)

\* both credentials are set and non-empty
CredentialsGiven(cfg) ==
    /\ Has(cfg, "XeroApiConfig", "rsa_key_path")
    /\ cfg["XeroApiConfig"]["rsa_key_path"] # ""
    /\ Has(cfg, "XeroApiConfig", "consumer_key")
    /\ cfg["XeroApiConfig"]["consumer_key"] # ""

\* C9: validation runs on the configuration merged from proto, file and cli;
\* it passes (load_config returns) exactly when rsa_key_path and
\* consumer_key are both set and non-empty, and otherwise raises the
\* ConfigException whose message names the Xero API credentials.
C9_Validation ==
    /\ pc = "returned" =>
          (AllMerged /\ CredentialsGiven(config) /\ raised = "")
    /\ raised = "ConfigException: credentials" =>
          /\ AllMerged
          /\ ~CredentialsGiven(config)
          /\ critical = <<CredentialsMessage>>
    /\ (AllMerged /\ pc # "validate") =>
          (pc = "returned" \/ raised = "ConfigException: credentials")

\* validation failed on a configuration with one credential given and the
\* other set but blank
C9_Witness ==
    /\ raised = "ConfigException: credentials"
    /\ Has(config, "XeroApiConfig", "rsa_key_path")
    /\ config["XeroApiConfig"]["rsa_key_path"] # ""
    /\ Has(config, "XeroApiConfig", "consumer_key")
    /\ config["XeroApiConfig"]["consumer_key"] = ""

-----------------------------------------------------------------------------
(* C10 *)

\* C10: expand_relative_path is idempotent: for every path, base directory,
\* environment and home directory, resolving the result again against the
\* same base gives the same path.
C10_Idempotent ==
    p_pc = "twice" => p_twice = p_once

=============================================================================
